---- MODULE Spec2Model ----
(***************************************************************************)
(* Model of 19_Threshold_NM_EN_Ratio_Analyzer.py (EnhancedNuclearAnalyzer): *)
(* the polyline-to-profile index mapping (calculate_segment_boundaries)    *)
(* and the top-percent statistics of the nuclear-membrane, cytoplasm and   *)
(* threshold-recalculation code paths, the session of run_analysis with    *)
(* its cell records and export, calculate_se, and the data rows of a cell   *)
(* sheet (create_cell_sheet_with_publication_charts).                      *)
(*                                                                         *)
(* Numbers.  Pixel intensities are integers.  Means are exact rationals    *)
(* [num, den] in lowest terms.  The cut index                              *)
(*     int(len * (1.0 - threshold / 100.0))                                *)
(* is computed in IEEE-754 binary64 arithmetic, operation by operation,    *)
(* with round-to-nearest-even, because int() turns a rounding error of one *)
(* unit in the last place into a different index.  math.sqrt is a fixed    *)
(* point square root with SqrtScale fractional steps.                      *)
(***************************************************************************)
EXTENDS Integers, Sequences, FiniteSets, TLC

VARIABLES
    pc,                  \* position of the modelled run
    x_coords,            \* polygon.xpoints of the traced polyline
    y_coords,            \* polygon.ypoints of the traced polyline
    profile_length,      \* len(full_profile) handed to calculate_segment_boundaries
    segment_boundaries,  \* outcome of calculate_segment_boundaries
    sample,              \* the intensity profile the host returns for a trace
    threshold_percentage,\* self.threshold_percentage, in units of 1/ThresholdDen percent
    threshold_percent,   \* the threshold argument of the recalculate_* functions, same units
    nuclear_data,        \* outcome of measure_nuclear_membrane_detailed
    cytoplasm_data,      \* outcome of measure_cytoplasm_detailed
    nuclear_recalc,      \* outcome of recalculate_nuclear_mean_with_threshold
    cytoplasm_recalc,    \* outcome of recalculate_cytoplasm_mean_with_threshold
    cell_data,           \* self.cell_data, the records of the analysed cells
    nuclear_membrane_averages, \* self.nuclear_membrane_averages
    cytoplasm_averages,  \* self.cytoplasm_averages
    nucleus_cytoplasm_ratios,  \* self.nucleus_cytoplasm_ratios
    cell_count,          \* self.cell_count
    round_result,        \* how the last pass of the loop of run_analysis ended
    EXCEL_AVAILABLE,     \* the module-level flag set by the import of Apache POI
    threshold_comparison,\* the rows create_threshold_comparison_sheet computes
    threshold_summary,   \* the summary means create_threshold_comparison_sheet computes
    export_result,       \* how export_to_excel ended
    se_data,             \* the argument of calculate_se
    se,                  \* outcome of calculate_se
    nuclear_columns,     \* the nuclear data rows of a cell sheet
    cytoplasm_columns    \* the cytoplasm data rows of a cell sheet

\* the state of the analyzer object and of the export
session_vars == <<cell_data, nuclear_membrane_averages, cytoplasm_averages,
                  nucleus_cytoplasm_ratios, cell_count, round_result, EXCEL_AVAILABLE,
                  threshold_comparison, threshold_summary, export_result>>

\* the state of a call of calculate_se
se_vars == <<se_data, se>>

\* the data rows create_cell_sheet_with_publication_charts writes
sheet_vars == <<nuclear_columns, cytoplasm_columns>>

vars == <<pc, x_coords, y_coords, profile_length, segment_boundaries, sample,
          threshold_percentage, threshold_percent, nuclear_data, cytoplasm_data,
          nuclear_recalc, cytoplasm_recalc, session_vars, se_vars, sheet_vars>>

----------------------------------------------------------------------------
(* Bounds of the model *)

\* anchors of a polyline in the boundary specification: 2..MaxAnchors
MaxAnchors == 3
\* anchor coordinates are CoordStep * (0..MaxXIndex) by CoordStep * (0..MaxYIndex)
MaxXIndex == 2
MaxYIndex == 1
CoordStep == 5
\* profile lengths handed to calculate_segment_boundaries: 1..MaxProfileLength
MaxProfileLength == 11
\* samples: sequences of 0..MaxLen intensities in 0..MaxIntensity
MaxLen == 5
MaxIntensity == 1

----------------------------------------------------------------------------
(* Outcomes of a call: a returned value, None, or a raised exception *)

Returned(v) == [kind |-> "value", value |-> v]
ReturnedNone == [kind |-> "None", value |-> <<>>]
Raised(e) == [kind |-> e, value |-> <<>>]
NotCalled == [kind |-> "not called", value |-> <<>>]

----------------------------------------------------------------------------
(* The analyzer object after __init__, before any cell is analysed, and no  *)
(* call of calculate_se                                                     *)

NoSession ==
    /\ cell_data = <<>>
    /\ nuclear_membrane_averages = <<>>
    /\ cytoplasm_averages = <<>>
    /\ nucleus_cytoplasm_ratios = <<>>
    /\ cell_count = 0
    /\ round_result = "none"
    /\ EXCEL_AVAILABLE = TRUE
    /\ threshold_comparison = <<>>
    /\ threshold_summary = <<>>
    /\ export_result = "not called"

NoStatistics ==
    /\ se_data = <<>>
    /\ se = NotCalled

NoSheet ==
    /\ nuclear_columns = <<>>
    /\ cytoplasm_columns = <<>>

----------------------------------------------------------------------------
(* Exact rationals: sum(values) / float(len(values)) *)

RECURSIVE GCD(_, _)
GCD(a, b) == IF b = 0 THEN a ELSE GCD(b, a % b)

Abs(n) == IF n < 0 THEN 0 - n ELSE n

Rat(n, d) ==
    LET g == GCD(Abs(n), d)
    IN  [num |-> n \div g, den |-> d \div g]

RatAdd(a, b) == Rat(a.num * b.den + b.num * a.den, a.den * b.den)
RatDivInt(a, k) == Rat(a.num, a.den * k)
RatLeq(a, b) == a.num * b.den <= b.num * a.den
RatZero == Rat(0, 1)

RECURSIVE sum(_)
sum(values) == IF values = <<>> THEN 0 ELSE Head(values) + sum(Tail(values))

RECURSIVE RatSum(_)
RatSum(rats) == IF rats = <<>> THEN RatZero ELSE RatAdd(Head(rats), RatSum(Tail(rats)))

\* sum(values) / float(len(values)); the caller has excluded len(values) = 0
mean_of(values) == Rat(sum(values), Len(values))

----------------------------------------------------------------------------
(* IEEE-754 binary64 arithmetic of  len * (1.0 - threshold / 100.0)        *)
(* A double is man / 2^exp with man a natural of at most 53 bits, held as   *)
(* four limbs of 20 bits, least significant first.                          *)

LimbBase == 1048576
LimbBits == 20
MantissaBits == 53
\* thresholds are the doubles k / ThresholdDen percent, k a natural
ThresholdDen == 2

Pow2(e) == 2 ^ e

BigNorm(x) ==
    LET c1 == x[1] \div LimbBase
        a2 == x[2] + c1
        c2 == a2 \div LimbBase
        a3 == x[3] + c2
        c3 == a3 \div LimbBase
    IN  <<x[1] % LimbBase, a2 % LimbBase, a3 % LimbBase, x[4] + c3>>

BigPow2(e) == [i \in 1..4 |-> IF i = (e \div LimbBits) + 1 THEN Pow2(e % LimbBits) ELSE 0]
BigMulSmall(x, k) == BigNorm([i \in 1..4 |-> x[i] * k])
BigSub(x, y) == BigNorm([i \in 1..4 |-> x[i] - y[i]])

BigDivSmall(x, d) ==
    LET q4 == x[4] \div d
        t3 == (x[4] % d) * LimbBase + x[3]
        t2 == (t3 % d) * LimbBase + x[2]
        t1 == (t2 % d) * LimbBase + x[1]
    IN  [quot |-> <<t1 \div d, t2 \div d, t3 \div d, q4>>, rem |-> t1 % d]

RECURSIVE BitLen(_)
BitLen(n) == IF n = 0 THEN 0 ELSE 1 + BitLen(n \div 2)

BigBitLen(x) ==
    IF x[4] # 0 THEN 3 * LimbBits + BitLen(x[4])
    ELSE IF x[3] # 0 THEN 2 * LimbBits + BitLen(x[3])
    ELSE IF x[2] # 0 THEN LimbBits + BitLen(x[2])
    ELSE BitLen(x[1])

\* x / d rounded to the nearest natural, halves to the even one
BigDivRound(x, d) ==
    LET qr == BigDivSmall(x, d)
        up == \/ 2 * qr.rem > d
              \/ 2 * qr.rem = d /\ qr.quot[1] % 2 = 1
    IN  IF up THEN BigNorm([qr.quot EXCEPT ![1] = @ + 1]) ELSE qr.quot

\* man / 2^exp rounded to a double
DoubleRound(man, exp) ==
    LET k == IF BigBitLen(man) > MantissaBits THEN BigBitLen(man) - MantissaBits ELSE 0
    IN  [man |-> BigDivRound(man, Pow2(k)), exp |-> exp - k]

RECURSIVE QuotExp(_, _, _)
QuotExp(num, den, j) == IF num * Pow2(j) >= den THEN j ELSE QuotExp(num, den, j + 1)

\* the double nearest num / den, for naturals 0 < num <= den
DoubleDiv(num, den) ==
    LET e == MantissaBits - 1 + QuotExp(num, den, 0)
    IN  [man |-> BigDivRound(BigMulSmall(BigPow2(e), num), den), exp |-> e]

\* 1.0 - q for a double 0 < q <= 1
DoubleOneMinus(q) == DoubleRound(BigSub(BigPow2(q.exp), q.man), q.exp)

\* n * s for a natural n and a double s >= 0
DoubleTimesInt(n, s) == DoubleRound(BigMulSmall(s.man, n), s.exp)

\* int(p) for a double p >= 0
DoubleToInt(p) ==
    LET limbs == p.exp \div LimbBits
        shifted == [i \in 1..4 |-> IF i + limbs <= 4 THEN p.man[i + limbs] ELSE 0]
    IN  BigDivSmall(shifted, Pow2(p.exp % LimbBits)).quot[1]

----------------------------------------------------------------------------
(* calculate_segment_boundaries *)

\* resolution of the modelled math.sqrt: distances are multiples of 1/SqrtScale
SqrtScale == 1024

RECURSIVE Newton(_, _)
Newton(n, x) ==
    LET y == (x + n \div x) \div 2
    IN  IF y >= x THEN x ELSE Newton(n, y)

\* floor of the square root of a natural
ISqrt(n) == IF n = 0 THEN 0 ELSE Newton(n, n)

\* math.sqrt(dx*dx + dy*dy) for anchors i-1 and i (1-based i >= 2)
segment_distance(xs, ys, i) ==
    LET dx == xs[i] - xs[i - 1]
        dy == ys[i] - ys[i - 1]
    IN  ISqrt((dx * dx + dy * dy) * SqrtScale * SqrtScale)

\* anchor_distances[i-1]: the running total_distance up to anchor i (1-based)
RECURSIVE anchor_distance(_, _, _)
anchor_distance(xs, ys, i) ==
    IF i = 1 THEN 0
    ELSE anchor_distance(xs, ys, i - 1) + segment_distance(xs, ys, i)

\* round() of a non-negative quotient: halves go away from zero
RoundHalfAway(numer, denom) == (2 * numer + denom) \div (2 * denom)

\* mutant: int() without round()
boundary_index_truncated(distance, total_distance, length) ==
    LET idx == (distance * (length - 1)) \div total_distance
    IN  IF idx >= length THEN length - 1 ELSE idx

\* mutant: the quotient is scaled by profile_length and clamped above it
boundary_index_by_length(distance, total_distance, length) ==
    LET idx == RoundHalfAway(distance * length, total_distance)
    IN  IF idx > length THEN length ELSE idx

\* idx = int(round((anchor_distances[i] / total_distance) * (profile_length - 1)))
\* followed by the clamp to profile_length - 1
boundary_index(distance, total_distance, length) ==
    LET idx == RoundHalfAway(distance * (length - 1), total_distance)
    IN  IF idx >= length THEN length - 1 ELSE idx

\* mutant: one index per segment (range(n_anchors - 1)), not one per anchor
calculate_segment_boundaries_per_segment(xs, ys, length) ==
    LET n_anchors == Len(xs)
        total_distance == IF n_anchors = 0 THEN 0 ELSE anchor_distance(xs, ys, n_anchors)
    IN  IF n_anchors > 1 /\ total_distance = 0
        THEN Raised("ZeroDivisionError")
        ELSE Returned([i \in 1..(n_anchors - 1) |->
                 boundary_index(anchor_distance(xs, ys, i), total_distance, length)])

calculate_segment_boundaries(xs, ys, length) ==
    LET n_anchors == Len(xs)
        total_distance == IF n_anchors = 0 THEN 0 ELSE anchor_distance(xs, ys, n_anchors)
    IN  IF n_anchors > 0 /\ total_distance = 0
        THEN Raised("ZeroDivisionError")
        ELSE Returned([i \in 1..n_anchors |->
                 boundary_index(anchor_distance(xs, ys, i), total_distance, length)])

----------------------------------------------------------------------------
(* Specification of calculate_segment_boundaries on bounded inputs *)

XCoordinates == {CoordStep * k : k \in 0..MaxXIndex}
YCoordinates == {CoordStep * k : k \in 0..MaxYIndex}

InitBoundaries ==
    /\ NoSession
    /\ NoStatistics
    /\ NoSheet
    /\ pc = "polyline traced"
    /\ \E n \in 2..MaxAnchors :
          /\ x_coords \in [1..n -> XCoordinates]
          /\ y_coords \in [1..n -> YCoordinates]
    /\ profile_length \in 1..MaxProfileLength
    /\ segment_boundaries = NotCalled
    /\ sample = <<>>
    /\ threshold_percentage = 50 * ThresholdDen
    /\ threshold_percent = 50 * ThresholdDen
    /\ nuclear_data = NotCalled
    /\ cytoplasm_data = NotCalled
    /\ nuclear_recalc = NotCalled
    /\ cytoplasm_recalc = NotCalled

CalculateSegmentBoundaries ==
    /\ pc = "polyline traced"
    /\ segment_boundaries' = calculate_segment_boundaries(x_coords, y_coords, profile_length)
    /\ pc' = "boundaries done"
    /\ UNCHANGED <<x_coords, y_coords, profile_length, sample, threshold_percentage,
                   threshold_percent, nuclear_data, cytoplasm_data, nuclear_recalc,
                   cytoplasm_recalc,
                   session_vars, se_vars, sheet_vars>>

NextBoundaries == CalculateSegmentBoundaries

SpecBoundaries == InitBoundaries /\ [][NextBoundaries]_vars

----------------------------------------------------------------------------
(* Claims about calculate_segment_boundaries *)

n_anchors == Len(x_coords)

AllAnchorsCoincide ==
    \A i \in 1..n_anchors : x_coords[i] = x_coords[1] /\ y_coords[i] = y_coords[1]

BoundariesReturned ==
    pc = "boundaries done" /\ segment_boundaries.kind = "value"

\* C1: for at least 2 anchors that do not all coincide and a positive
\* profile_length, the returned sequence starts with 0 and ends with
\* profile_length - 1.
C1_FirstZeroLastEnd ==
    (pc = "boundaries done" /\ ~AllAnchorsCoincide) =>
        /\ segment_boundaries.kind = "value"
        /\ segment_boundaries.value[1] = 0
        /\ segment_boundaries.value[n_anchors] = profile_length - 1

C1_Witness ==
    /\ BoundariesReturned
    /\ n_anchors = 3
    /\ profile_length > 2
    /\ x_coords[1] # 0
    /\ segment_boundaries.value[1] = 0
    /\ segment_boundaries.value[3] = profile_length - 1

\* C2: for a valid polyline of n anchors the result has exactly n indices, is
\* non-decreasing, and every index lies in 0..profile_length-1.
C2_CountMonotoneInRange ==
    (pc = "boundaries done" /\ ~AllAnchorsCoincide) =>
        /\ segment_boundaries.kind = "value"
        /\ DOMAIN segment_boundaries.value = 1..n_anchors
        /\ \A i \in 1..n_anchors :
              /\ segment_boundaries.value[i] >= 0
              /\ segment_boundaries.value[i] <= profile_length - 1
        /\ \A i \in 1..(n_anchors - 1) :
              segment_boundaries.value[i] <= segment_boundaries.value[i + 1]

\* a polyline that doubles back, so the second segment is shorter than the first
C2_Witness ==
    /\ BoundariesReturned
    /\ n_anchors = 3
    /\ segment_distance(x_coords, y_coords, 3) < segment_distance(x_coords, y_coords, 2)
    /\ segment_boundaries.value[1] < segment_boundaries.value[2]
    /\ segment_boundaries.value[2] < segment_boundaries.value[3]

\* C3 (as claimed): when all anchors coincide the computation fails with a
\* DegeneratePolyline error and performs no division by zero.
C3_DegeneratePolylineError ==
    (pc = "boundaries done" /\ AllAnchorsCoincide) =>
        segment_boundaries.kind = "DegeneratePolyline"

\* C4: each index is round(D(i) / D(n-1) * (profile_length - 1)), an integer
\* nearest to that quotient, with D the cumulative distance from the first
\* anchor; (0,0),(5,0),(10,0) with profile_length 11 gives [0, 5, 10].
C4_NearestIndex ==
    (pc = "boundaries done" /\ ~AllAnchorsCoincide) =>
        /\ segment_boundaries.kind = "value"
        /\ \A i \in 1..n_anchors :
              LET total == anchor_distance(x_coords, y_coords, n_anchors)
                  exact == anchor_distance(x_coords, y_coords, i) * (profile_length - 1)
              IN  2 * Abs(segment_boundaries.value[i] * total - exact) <= total
        /\ (x_coords = <<0, 5, 10>> /\ y_coords = <<0, 0, 0>> /\ profile_length = 11)
              => segment_boundaries.value = <<0, 5, 10>>

C4_Witness ==
    /\ BoundariesReturned
    /\ x_coords = <<0, 5, 10>>
    /\ y_coords = <<0, 0, 0>>
    /\ profile_length = 11
    /\ segment_boundaries.value = <<0, 5, 10>>

----------------------------------------------------------------------------
(* Top-percent statistics *)

RECURSIVE insert_sorted(_, _)
insert_sorted(v, sorted_values) ==
    IF sorted_values = <<>> THEN <<v>>
    ELSE IF v < Head(sorted_values) THEN <<v>> \o sorted_values
    ELSE <<Head(sorted_values)>> \o insert_sorted(v, Tail(sorted_values))

\* mutant: sorted(values, reverse=True)
RECURSIVE sorted_descending(_)
sorted_descending(values) ==
    IF values = <<>> THEN <<>>
    ELSE LET n == Len(values)
             rest == sorted_descending(SubSeq(values, 1, n - 1))
             before == SelectSeq(rest, LAMBDA w : w >= values[n])
             after == SelectSeq(rest, LAMBDA w : w < values[n])
         IN  before \o <<values[n]>> \o after

\* mutant: the values are used in traced order, without sorting
unsorted(values) == values

\* sorted(values): ascending, stable
RECURSIVE sorted(_)
sorted(values) ==
    IF values = <<>> THEN <<>>
    ELSE LET n == Len(values)
         IN  insert_sorted(values[n], sorted(SubSeq(values, 1, n - 1)))

\* mutant: the index is taken from the fraction kept, not the fraction cut
threshold_idx_fraction_kept(length, th) == (length * th) \div (100 * ThresholdDen)

\* threshold_idx = int(len(sorted_values) * (1.0 - threshold / 100.0)),
\* threshold = th / ThresholdDen percent with 0 <= threshold <= 100
threshold_idx(length, th) ==
    IF th = 0 THEN length
    ELSE DoubleToInt(DoubleTimesInt(length,
             DoubleOneMinus(DoubleDiv(th, 100 * ThresholdDen))))

\* sorted_values[threshold_idx:]
slice_from(sorted_values, idx) == SubSeq(sorted_values, idx + 1, Len(sorted_values))

\* full_profile[start_idx:end_idx + 1] for 0 <= start_idx
\* mutant: the slice stops before the end index
slice_exclusive(profile, start_idx, end_idx) == SubSeq(profile, start_idx + 1, end_idx)

\* full_profile[start_idx:end_idx + 1]
slice_inclusive(profile, start_idx, end_idx) == SubSeq(profile, start_idx + 1, end_idx + 1)

\* one pass of the segment loop of measure_nuclear_membrane_detailed:
\* "skipped", a ZeroDivisionError, or the stroke_info of the segment
stroke_of_segment(full_profile, boundaries, seg, th) ==
    LET start_idx == boundaries[seg]
        end_idx == boundaries[seg + 1]
        segment_values == slice_inclusive(full_profile, start_idx, end_idx)
        sorted_values == sorted(segment_values)
        top_values == slice_from(sorted_values, threshold_idx(Len(sorted_values), th))
    IN  IF Len(segment_values) = 0 THEN [kind |-> "skipped", value |-> <<>>]
        ELSE IF Len(top_values) = 0 THEN Raised("ZeroDivisionError")
        ELSE Returned([segment_number |-> seg,
                       start_index |-> start_idx,
                       end_index |-> end_idx,
                       raw_values |-> segment_values,
                       top_values |-> top_values,
                       stroke_average |-> mean_of(top_values)])

\* the values of the outcomes of the given kind, in order
RECURSIVE select_values(_, _)
select_values(strokes, wanted) ==
    IF strokes = <<>> THEN <<>>
    ELSE IF Head(strokes).kind = wanted
         THEN <<Head(strokes).value>> \o select_values(Tail(strokes), wanted)
         ELSE select_values(Tail(strokes), wanted)

\* mutant: the overall mean is the top-percent mean of the pooled profile
measure_nuclear_membrane_pooled(roi, xs, ys, full_profile, th) ==
    IF roi # "polyline" THEN ReturnedNone
    ELSE IF Len(xs) < 2 THEN ReturnedNone
    ELSE IF Len(full_profile) = 0 THEN ReturnedNone
    ELSE LET n_segments == Len(xs) - 1
             boundaries == calculate_segment_boundaries(xs, ys, Len(full_profile))
         IN  IF boundaries.kind # "value" THEN Raised(boundaries.kind)
             ELSE LET strokes == [seg \in 1..n_segments |->
                                     stroke_of_segment(full_profile, boundaries.value, seg, th)]
                      stroke_data == select_values(strokes, "value")
                      stroke_averages == [k \in 1..Len(stroke_data) |->
                                             stroke_data[k].stroke_average]
                      pooled == slice_from(sorted(full_profile),
                                           threshold_idx(Len(full_profile), th))
                  IN  IF \E seg \in 1..n_segments : strokes[seg].kind = "ZeroDivisionError"
                      THEN Raised("ZeroDivisionError")
                      ELSE IF Len(stroke_averages) = 0 THEN ReturnedNone
                      ELSE Returned([full_profile |-> full_profile,
                                     segment_boundaries |-> boundaries.value,
                                     stroke_data |-> stroke_data,
                                     stroke_averages |-> stroke_averages,
                                     overall_mean |-> mean_of(pooled),
                                     n_segments |-> Len(stroke_averages)])

\* measure_nuclear_membrane_detailed for the selection and profile the host
\* hands over: roi is "None", "polyline" or another selection type
measure_nuclear_membrane_detailed(roi, xs, ys, full_profile, th) ==
    IF roi # "polyline" THEN ReturnedNone
    ELSE IF Len(xs) < 2 THEN ReturnedNone
    ELSE IF Len(full_profile) = 0 THEN ReturnedNone
    ELSE LET n_segments == Len(xs) - 1
             boundaries == calculate_segment_boundaries(xs, ys, Len(full_profile))
         IN  IF boundaries.kind # "value" THEN Raised(boundaries.kind)
             ELSE LET strokes == [seg \in 1..n_segments |->
                                     stroke_of_segment(full_profile, boundaries.value, seg, th)]
                      stroke_data == select_values(strokes, "value")
                      stroke_averages == [k \in 1..Len(stroke_data) |->
                                             stroke_data[k].stroke_average]
                  IN  IF \E seg \in 1..n_segments : strokes[seg].kind = "ZeroDivisionError"
                      THEN Raised("ZeroDivisionError")
                      ELSE IF Len(stroke_averages) = 0 THEN ReturnedNone
                      ELSE Returned([full_profile |-> full_profile,
                                     segment_boundaries |-> boundaries.value,
                                     stroke_data |-> stroke_data,
                                     stroke_averages |-> stroke_averages,
                                     overall_mean |-> RatDivInt(RatSum(stroke_averages),
                                                                Len(stroke_averages)),
                                     n_segments |-> Len(stroke_averages)])

\* mutant: the profile is sorted in place, the sorted profile is stored
measure_cytoplasm_sorted_in_place(roi, profile, th) ==
    IF roi # "polyline" THEN ReturnedNone
    ELSE IF Len(profile) = 0 THEN ReturnedNone
    ELSE LET sorted_profile == sorted(profile)
             idx == threshold_idx(Len(sorted_profile), th)
             top_values == slice_from(sorted_profile, idx)
             threshold_value == IF idx < Len(sorted_profile) THEN sorted_profile[idx + 1] ELSE 0
         IN  IF Len(top_values) = 0 THEN Raised("ZeroDivisionError")
             ELSE Returned([raw_profile |-> sorted_profile,
                            top_values |-> top_values,
                            threshold_value |-> threshold_value,
                            mean |-> mean_of(top_values)])

\* measure_cytoplasm_detailed for the selection and profile the host hands over
measure_cytoplasm_detailed(roi, profile, th) ==
    IF roi # "polyline" THEN ReturnedNone
    ELSE IF Len(profile) = 0 THEN ReturnedNone
    ELSE LET sorted_profile == sorted(profile)
             idx == threshold_idx(Len(sorted_profile), th)
             top_values == slice_from(sorted_profile, idx)
             threshold_value == IF idx < Len(sorted_profile) THEN sorted_profile[idx + 1] ELSE 0
         IN  IF Len(top_values) = 0 THEN Raised("ZeroDivisionError")
             ELSE Returned([raw_profile |-> profile,
                            top_values |-> top_values,
                            threshold_value |-> threshold_value,
                            mean |-> mean_of(top_values)])

\* the stroke averages recalculate_nuclear_mean_with_threshold collects
RECURSIVE recalculated_stroke_averages(_, _)
recalculated_stroke_averages(stroke_data, th) ==
    IF stroke_data = <<>> THEN <<>>
    ELSE LET raw_values == Head(stroke_data).raw_values
             sorted_values == sorted(raw_values)
             top_values == slice_from(sorted_values, threshold_idx(Len(sorted_values), th))
             rest == recalculated_stroke_averages(Tail(stroke_data), th)
         IN  IF Len(raw_values) = 0 THEN rest
             ELSE IF Len(top_values) > 0 THEN <<mean_of(top_values)>> \o rest
             ELSE rest

recalculate_nuclear_mean_with_threshold(data, th) ==
    LET stroke_averages == recalculated_stroke_averages(data.stroke_data, th)
    IN  IF Len(stroke_averages) > 0
        THEN Returned(RatDivInt(RatSum(stroke_averages), Len(stroke_averages)))
        ELSE Returned(RatZero)

\* mutant: the cut is the exact floor, not the one of the double arithmetic
recalculate_cytoplasm_mean_exact_cut(data, th) ==
    LET raw_profile == data.raw_profile
        sorted_profile == sorted(raw_profile)
        top_values == slice_from(sorted_profile,
                                 (Len(sorted_profile) * (100 * ThresholdDen - th))
                                     \div (100 * ThresholdDen))
    IN  IF Len(raw_profile) = 0 THEN Returned(RatZero)
        ELSE IF Len(top_values) > 0 THEN Returned(mean_of(top_values))
        ELSE Returned(RatZero)

recalculate_cytoplasm_mean_with_threshold(data, th) ==
    LET raw_profile == data.raw_profile
        sorted_profile == sorted(raw_profile)
        top_values == slice_from(sorted_profile, threshold_idx(Len(sorted_profile), th))
    IN  IF Len(raw_profile) = 0 THEN Returned(RatZero)
        ELSE IF Len(top_values) > 0 THEN Returned(mean_of(top_values))
        ELSE Returned(RatZero)

\* mutant: the lower limit of the dialog is 0 instead of 1
threshold_rejected_below_zero(th) == th < 0 \/ th > 100 * ThresholdDen

\* mutant: the lower limit of the dialog is exclusive
threshold_rejected_at_one(th) == th <= 1 * ThresholdDen \/ th > 100 * ThresholdDen

\* get_analysis_settings rejects the number entered in the dialog
threshold_rejected(th) == th < 1 * ThresholdDen \/ th > 100 * ThresholdDen

----------------------------------------------------------------------------
(* Specification of one cell's measurement: the settings dialog, then the   *)
(* nuclear-membrane trace, then the cytoplasm trace (run_analysis up to the *)
(* return of analyze_single_cell)                                           *)

Samples == UNION {[1..n -> 0..MaxIntensity] : n \in 0..MaxLen}

\* numbers typed into the settings dialog: 0, 0.5, 1, 10, 50, 80, 90, 100, 100.5 percent
ThresholdInputs == {0, 1, 2, 20, 100, 160, 180, 200, 201}

\* selections the host reports after a trace
RoiTypes == {"polyline", "None"}

\* polygons of the traced nuclear polyline: one segment, two equal segments
TracedPolygons ==
    { [xs |-> <<0, CoordStep>>, ys |-> <<0, 0>>],
      [xs |-> <<0, CoordStep, 2 * CoordStep>>, ys |-> <<0, 0, 0>>] }

InitMeasure ==
    /\ NoSession
    /\ NoStatistics
    /\ NoSheet
    /\ pc = "settings"
    /\ sample \in Samples
    /\ threshold_percentage = 50 * ThresholdDen
    /\ threshold_percent = 50 * ThresholdDen
    /\ x_coords = <<>>
    /\ y_coords = <<>>
    /\ profile_length = 0
    /\ segment_boundaries = NotCalled
    /\ nuclear_data = NotCalled
    /\ cytoplasm_data = NotCalled
    /\ nuclear_recalc = NotCalled
    /\ cytoplasm_recalc = NotCalled

\* run_analysis from its entry to the first trace: the test for an open image,
\* get_analysis_settings for a number out of the given inputs, the test of its
\* result, and the first cell_count += 1 of the loop
run_analysis_settings(inputs) ==
    /\ pc = "settings"
    /\ \E image_open \in BOOLEAN, wasCanceled \in BOOLEAN, number \in inputs :
          IF ~image_open
          THEN /\ pc' = "no image"
               /\ UNCHANGED <<threshold_percentage, cell_count>>
          ELSE IF wasCanceled
          THEN /\ pc' = "settings canceled"
               /\ UNCHANGED <<threshold_percentage, cell_count>>
          ELSE /\ threshold_percentage' = number
               /\ IF threshold_rejected(number)
                  THEN /\ pc' = "threshold rejected"
                       /\ UNCHANGED cell_count
                  ELSE /\ pc' = "trace nuclear"
                       /\ cell_count' = cell_count + 1
    /\ UNCHANGED <<x_coords, y_coords, profile_length, segment_boundaries, sample,
                   threshold_percent, nuclear_data, cytoplasm_data, nuclear_recalc,
                   cytoplasm_recalc, cell_data, nuclear_membrane_averages,
                   cytoplasm_averages, nucleus_cytoplasm_ratios, round_result,
                   EXCEL_AVAILABLE, threshold_comparison, threshold_summary,
                   export_result, se_vars, sheet_vars>>

GetAnalysisSettings == run_analysis_settings(ThresholdInputs)

\* analyze_single_cell, step 1
MeasureNuclearMembrane ==
    /\ pc = "trace nuclear"
    /\ \E roi \in RoiTypes, polygon \in TracedPolygons :
          LET outcome == measure_nuclear_membrane_detailed(roi, polygon.xs, polygon.ys,
                                                           sample, threshold_percentage)
          IN  /\ x_coords' = IF roi = "polyline" THEN polygon.xs ELSE <<>>
              /\ y_coords' = IF roi = "polyline" THEN polygon.ys ELSE <<>>
              /\ nuclear_data' = outcome
              /\ pc' = CASE outcome.kind = "value" -> "trace cytoplasm"
                         [] outcome.kind = "None" -> "cell skipped"
                         [] OTHER -> "crashed"
    /\ UNCHANGED <<profile_length, segment_boundaries, sample, threshold_percentage,
                   threshold_percent, cytoplasm_data, nuclear_recalc, cytoplasm_recalc,
                   session_vars, se_vars, sheet_vars>>

\* analyze_single_cell, step 2
MeasureCytoplasm ==
    /\ pc = "trace cytoplasm"
    /\ \E roi \in RoiTypes :
          LET outcome == measure_cytoplasm_detailed(roi, sample, threshold_percentage)
          IN  /\ cytoplasm_data' = outcome
              /\ pc' = CASE outcome.kind = "value" -> "cell measured"
                         [] outcome.kind = "None" -> "cell skipped"
                         [] OTHER -> "crashed"
    /\ UNCHANGED <<x_coords, y_coords, profile_length, segment_boundaries, sample,
                   threshold_percentage, threshold_percent, nuclear_data, nuclear_recalc,
                   cytoplasm_recalc,
                   session_vars, se_vars, sheet_vars>>

NextMeasure ==
    \/ GetAnalysisSettings
    \/ MeasureNuclearMembrane
    \/ MeasureCytoplasm

SpecMeasure == InitMeasure /\ [][NextMeasure]_vars

----------------------------------------------------------------------------
(* Claims about the top-percent selection of the measurement paths *)

RECURSIVE count_of(_, _)
count_of(v, values) ==
    IF values = <<>> THEN 0
    ELSE (IF Head(values) = v THEN 1 ELSE 0) + count_of(v, Tail(values))

range_of(values) == {values[i] : i \in 1..Len(values)}

IsAscending(values) == \A i \in 1..(Len(values) - 1) : values[i] <= values[i + 1]

SameMultiset(a, b) ==
    /\ Len(a) = Len(b)
    /\ \A v \in range_of(a) \cup range_of(b) : count_of(v, a) = count_of(v, b)

\* the sample with the elements at positions i and i+1 exchanged
swap_adjacent(values, i) ==
    [k \in 1..Len(values) |->
        IF k = i THEN values[i + 1] ELSE IF k = i + 1 THEN values[i] ELSE values[k]]

\* floor(len * (1 - t/100)) in exact arithmetic
exact_cut(length, th) ==
    (length * (100 * ThresholdDen - th)) \div (100 * ThresholdDen)

\* the ascending sample from index cut to its end, described without sorting:
\* ascending, a sub-multiset of the sample of length len - cut, and no smaller
\* than any element left out
IsTopSelection(top_values, values, cut) ==
    /\ Len(top_values) = Len(values) - cut
    /\ IsAscending(top_values)
    /\ \A v \in range_of(values) :
          /\ count_of(v, top_values) <= count_of(v, values)
          /\ count_of(v, top_values) < count_of(v, values) =>
                \A w \in range_of(top_values) : w >= v
    /\ range_of(top_values) \subseteq range_of(values)

StrokesMeasured == nuclear_data.kind = "value"
CytoplasmMeasured == cytoplasm_data.kind = "value"

\* C5 (as claimed): every path selects the ascending sample from index
\* cut = floor(len * (1 - t/100)) to its end and reports sum / count of it.
C5_ExactFloorCut ==
    /\ StrokesMeasured =>
          \A k \in 1..Len(nuclear_data.value.stroke_data) :
              LET stroke == nuclear_data.value.stroke_data[k]
              IN  /\ IsTopSelection(stroke.top_values, stroke.raw_values,
                         exact_cut(Len(stroke.raw_values), threshold_percentage))
                  /\ stroke.stroke_average = mean_of(stroke.top_values)
    /\ CytoplasmMeasured =>
          /\ IsTopSelection(cytoplasm_data.value.top_values, cytoplasm_data.value.raw_profile,
                 exact_cut(Len(cytoplasm_data.value.raw_profile), threshold_percentage))
          /\ cytoplasm_data.value.mean = mean_of(cytoplasm_data.value.top_values)

\* C6: at threshold 100 the top-percent mean of a non-empty sample is the
\* arithmetic mean of the whole sample: of every traced nuclear segment and of
\* the cytoplasm profile.
C6_FullThresholdIsMean ==
    threshold_percentage = 100 * ThresholdDen =>
        /\ nuclear_data.kind \notin {"not called", "None"} =>
              /\ StrokesMeasured
              /\ \A k \in 1..Len(nuclear_data.value.stroke_data) :
                    LET stroke == nuclear_data.value.stroke_data[k]
                    IN  /\ SameMultiset(stroke.top_values, stroke.raw_values)
                        /\ stroke.stroke_average.num * Len(stroke.raw_values)
                              = sum(stroke.raw_values) * stroke.stroke_average.den
        /\ cytoplasm_data.kind \notin {"not called", "None"} =>
              /\ CytoplasmMeasured
              /\ SameMultiset(cytoplasm_data.value.top_values, sample)
              /\ cytoplasm_data.value.mean.num * Len(sample)
                    = sum(sample) * cytoplasm_data.value.mean.den

C6_Witness ==
    /\ pc = "cell measured"
    /\ threshold_percentage = 100 * ThresholdDen
    /\ Len(sample) = 3
    /\ sum(sample) = 2
    /\ cytoplasm_data.value.mean = [num |-> 2, den |-> 3]

\* C8: for a non-empty sample and a threshold the settings dialog accepted,
\* every selected top_values list is non-empty and no mean divides by zero.
C8_TopValuesNonEmpty ==
    /\ nuclear_data.kind # "ZeroDivisionError"
    /\ cytoplasm_data.kind # "ZeroDivisionError"
    /\ StrokesMeasured =>
          \A k \in 1..Len(nuclear_data.value.stroke_data) :
              Len(nuclear_data.value.stroke_data[k].top_values) > 0
    /\ CytoplasmMeasured => Len(cytoplasm_data.value.top_values) > 0
    /\ (pc = "cell measured" /\ Len(sample) > 0) => (StrokesMeasured /\ CytoplasmMeasured)

\* the strictest accepted threshold on the longest sample
C8_Witness ==
    /\ pc = "cell measured"
    /\ threshold_percentage = 1 * ThresholdDen
    /\ Len(sample) = MaxLen
    /\ Len(cytoplasm_data.value.top_values) = 1
    /\ Len(nuclear_data.value.stroke_data[1].top_values) = 1

\* C9: every selected value is >= every value left out, and the selection and
\* its mean are the same for every reordering of the segment's values (checked
\* for each exchange of two neighbours; the samples of one length are closed
\* under these, and they generate every permutation).
C9_TopByValueNotPosition ==
    StrokesMeasured =>
        \A k \in 1..Len(nuclear_data.value.stroke_data) :
            LET stroke == nuclear_data.value.stroke_data[k]
                raw == stroke.raw_values
            IN  /\ \A v \in range_of(raw) :
                      count_of(v, stroke.top_values) < count_of(v, raw) =>
                          \A w \in range_of(stroke.top_values) : w >= v
                /\ \A i \in 1..(Len(raw) - 1) :
                      LET other == stroke_of_segment(swap_adjacent(raw, i),
                                       <<0, Len(raw) - 1>>, 1, threshold_percentage)
                      IN  /\ other.kind = "value"
                          /\ other.value.top_values = stroke.top_values
                          /\ other.value.stroke_average = stroke.stroke_average

\* an unsorted segment whose selection leaves a value out
C9_Witness ==
    /\ StrokesMeasured
    /\ \E k \in 1..Len(nuclear_data.value.stroke_data) :
          LET stroke == nuclear_data.value.stroke_data[k]
          IN  /\ ~IsAscending(stroke.raw_values)
              /\ Len(stroke.top_values) < Len(stroke.raw_values)
              /\ Len(stroke.top_values) > 1

----------------------------------------------------------------------------
(* Specification of the recalculate_* functions on bounded inputs *)

\* fixed_thresholds = [10.0, 20.0, 30.0, 40.0, 50.0, 60.0]
fixed_thresholds == [i \in 1..6 |-> 10 * i * ThresholdDen]

\* threshold arguments: the fixed thresholds and 0, 0.5, 1, 80, 100 percent
RecalcThresholds == range_of(fixed_thresholds) \cup {0, 1, 2, 160, 200}

\* stroke_data of a profile traced as one segment, or as two segments that
\* share the pixel at their common boundary index
StrokeLayouts(profile) ==
    LET n == Len(profile)
        middle == (n + 1) \div 2
    IN  { <<[raw_values |-> profile]>> } \cup
        ( IF n < 2 THEN {}
          ELSE { <<[raw_values |-> SubSeq(profile, 1, middle)],
                   [raw_values |-> SubSeq(profile, middle, n)]>> } )

InitRecalc ==
    /\ NoSession
    /\ NoStatistics
    /\ NoSheet
    /\ pc = "stored"
    /\ sample \in Samples
    /\ threshold_percent \in RecalcThresholds
    /\ \E strokes \in StrokeLayouts(sample) :
          nuclear_data = Returned([stroke_data |-> strokes])
    /\ cytoplasm_data = Returned([raw_profile |-> sample])
    /\ threshold_percentage = 50 * ThresholdDen
    /\ x_coords = <<>>
    /\ y_coords = <<>>
    /\ profile_length = 0
    /\ segment_boundaries = NotCalled
    /\ nuclear_recalc = NotCalled
    /\ cytoplasm_recalc = NotCalled

RecalculateNuclearMean ==
    /\ pc = "stored"
    /\ nuclear_recalc' =
          recalculate_nuclear_mean_with_threshold(nuclear_data.value, threshold_percent)
    /\ pc' = "nuclear recalculated"
    /\ UNCHANGED <<x_coords, y_coords, profile_length, segment_boundaries, sample,
                   threshold_percentage, threshold_percent, nuclear_data, cytoplasm_data,
                   cytoplasm_recalc,
                   session_vars, se_vars, sheet_vars>>

RecalculateCytoplasmMean ==
    /\ pc = "nuclear recalculated"
    /\ cytoplasm_recalc' =
          recalculate_cytoplasm_mean_with_threshold(cytoplasm_data.value, threshold_percent)
    /\ pc' = "recalculated"
    /\ UNCHANGED <<x_coords, y_coords, profile_length, segment_boundaries, sample,
                   threshold_percentage, threshold_percent, nuclear_data, cytoplasm_data,
                   nuclear_recalc,
                   session_vars, se_vars, sheet_vars>>

NextRecalc ==
    \/ RecalculateNuclearMean
    \/ RecalculateCytoplasmMean

SpecRecalc == InitRecalc /\ [][NextRecalc]_vars

----------------------------------------------------------------------------
(* Claims about the recalculate_* functions *)

SelectionWouldBeEmpty ==
    \/ Len(sample) = 0
    \/ exact_cut(Len(sample), threshold_percent) = Len(sample)

----------------------------------------------------------------------------
(* The cell record and the four lists of the analyzer object *)

\* a / b for b # 0
RatDiv(a, b) ==
    IF b.num > 0 THEN Rat(a.num * b.den, a.den * b.num)
    ELSE Rat(0 - (a.num * b.den), a.den * (0 - b.num))

RatLess(a, b) == a.num * b.den < b.num * a.den

\* mutant: the quotient without the test of the divisor
ratio_unguarded(nuclear_mean, cytoplasm_mean) ==
    IF cytoplasm_mean.num = 0 THEN Raised("ZeroDivisionError")
    ELSE Returned(RatDiv(nuclear_mean, cytoplasm_mean))

\* nuclear_mean / cytoplasm_mean if cytoplasm_mean > 0 else 0
ratio(nuclear_mean, cytoplasm_mean) ==
    IF RatLess(RatZero, cytoplasm_mean)
    THEN Returned(RatDiv(nuclear_mean, cytoplasm_mean))
    ELSE Returned(RatZero)

\* the dictionary analyze_single_cell builds
combined(nuclear, cytoplasm, number, quotient) ==
    [cell_number |-> number,
     nuclear_data |-> nuclear,
     cytoplasm_data |-> cytoplasm,
     nuclear_mean |-> nuclear.overall_mean,
     cytoplasm_mean |-> cytoplasm.mean,
     ratio |-> quotient]

\* mutant: a cytoplasm trace without data counts as a cytoplasm mean of 0
analyze_single_cell_missing_as_zero(nuclear, cytoplasm, number) ==
    IF nuclear.kind = "None" THEN ReturnedNone
    ELSE IF nuclear.kind # "value" THEN nuclear
    ELSE IF cytoplasm.kind = "not called" THEN NotCalled
    ELSE IF cytoplasm.kind = "None"
         THEN Returned(combined(nuclear.value,
                                [raw_profile |-> <<>>, top_values |-> <<>>,
                                 threshold_value |-> 0, mean |-> RatZero],
                                number, RatZero))
    ELSE IF cytoplasm.kind # "value" THEN cytoplasm
    ELSE LET quotient == ratio(nuclear.value.overall_mean, cytoplasm.value.mean)
         IN  IF quotient.kind # "value" THEN quotient
             ELSE Returned(combined(nuclear.value, cytoplasm.value, number, quotient.value))

\* analyze_single_cell for the outcomes of its two measurements; with the
\* cytoplasm measurement "not called" it stands at the cytoplasm trace
analyze_single_cell(nuclear, cytoplasm, number) ==
    IF nuclear.kind = "None" THEN ReturnedNone
    ELSE IF nuclear.kind # "value" THEN nuclear
    ELSE IF cytoplasm.kind = "not called" THEN NotCalled
    ELSE IF cytoplasm.kind = "None" THEN ReturnedNone
    ELSE IF cytoplasm.kind # "value" THEN cytoplasm
    ELSE LET quotient == ratio(nuclear.value.overall_mean, cytoplasm.value.mean)
         IN  IF quotient.kind # "value" THEN quotient
             ELSE Returned(combined(nuclear.value, cytoplasm.value, number, quotient.value))

\* mutant: the record is put in front of the list
stored_cell_data_in_front(records, cell) == <<cell>> \o records

\* self.cell_data.append(cell_data)
stored_cell_data(records, cell) == Append(records, cell)

\* mutant: the cytoplasm list receives the nuclear mean
stored_cytoplasm_averages_copied(averages, cell) == Append(averages, cell.nuclear_mean)

\* self.cytoplasm_averages.append(cell_data['cytoplasm_mean'])
stored_cytoplasm_averages(averages, cell) == Append(averages, cell.cytoplasm_mean)

\* the three values the threshold comparison sheet shows for a cell at a threshold
comparison_entry(threshold, nuclear_mean, cytoplasm_mean) ==
    [threshold |-> threshold,
     nuclear_mean |-> nuclear_mean,
     cytoplasm_mean |-> cytoplasm_mean,
     ratio |-> ratio(nuclear_mean, cytoplasm_mean)]

\* the values of one cell of the threshold comparison sheet, per fixed threshold
comparison_row(cell) ==
    [k \in 1..Len(fixed_thresholds) |->
        comparison_entry(fixed_thresholds[k],
                         recalculate_nuclear_mean_with_threshold(
                             cell.nuclear_data, fixed_thresholds[k]).value,
                         recalculate_cytoplasm_mean_with_threshold(
                             cell.cytoplasm_data, fixed_thresholds[k]).value)]

\* the cell rows of create_threshold_comparison_sheet
comparison_rows(records) == [i \in 1..Len(records) |-> comparison_row(records[i])]

----------------------------------------------------------------------------
(* Specification of a session of run_analysis: the settings dialog, the loop *)
(* over the cells with its two traces and its prompt, and the export         *)

\* cells of a session: the prompt offers "continue" below MaxCells records
MaxCells == 2

\* profiles the host returns for a trace: no pixel, one pixel of 0, two
\* pixels in descending order, one negative pixel of a 32-bit image
SessionProfiles == { <<>>, <<0>>, <<2, 1>>, <<-1>> }

\* the polyline traced along the nuclear membrane: two equal segments, or
\* two anchors on one point
SessionPolygons ==
    { [xs |-> <<0, CoordStep, 2 * CoordStep>>, ys |-> <<0, 0, 0>>],
      [xs |-> <<CoordStep, CoordStep>>, ys |-> <<0, 0>>] }

\* numbers typed into the settings dialog: -1, 0, 0.5, 1, 50, 100, 100.5 percent
SessionThresholdInputs == {-2, 0, 1, 2, 100, 200, 201}

\* the buttons of ContinueDialog
Choices == {"continue", "export", "cancel"}

InitSession ==
    /\ pc = "settings"
    /\ cell_data = <<>>
    /\ nuclear_membrane_averages = <<>>
    /\ cytoplasm_averages = <<>>
    /\ nucleus_cytoplasm_ratios = <<>>
    /\ cell_count = 0
    /\ threshold_percentage = 50 * ThresholdDen
    /\ EXCEL_AVAILABLE \in BOOLEAN
    /\ round_result = "none"
    /\ threshold_comparison = <<>>
    /\ threshold_summary = <<>>
    /\ export_result = "not called"
    /\ threshold_percent = 50 * ThresholdDen
    /\ x_coords = <<>>
    /\ y_coords = <<>>
    /\ profile_length = 0
    /\ segment_boundaries = NotCalled
    /\ sample = <<>>
    /\ nuclear_data = NotCalled
    /\ cytoplasm_data = NotCalled
    /\ nuclear_recalc = NotCalled
    /\ cytoplasm_recalc = NotCalled
    /\ NoStatistics
    /\ NoSheet

StartSession == run_analysis_settings(SessionThresholdInputs)

\* mutant: the skipped pass does not take its increment of cell_count back
SkipCellWithoutDecrement ==
    /\ round_result' = "skipped"
    /\ cell_count' = cell_count + 1
    /\ pc' = "trace nuclear"
    /\ UNCHANGED <<cell_data, nuclear_membrane_averages, cytoplasm_averages,
                   nucleus_cytoplasm_ratios>>

\* a pass of the loop whose analyze_single_cell returned None: the decrement
\* of cell_count, "continue", and the increment at the head of the loop
SkipCell ==
    /\ round_result' = "skipped"
    /\ cell_count' = (cell_count - 1) + 1
    /\ pc' = "trace nuclear"
    /\ UNCHANGED <<cell_data, nuclear_membrane_averages, cytoplasm_averages,
                   nucleus_cytoplasm_ratios>>

\* a pass of the loop that ended in an uncaught exception
CrashCell ==
    /\ round_result' = "crashed"
    /\ pc' = "crashed"
    /\ UNCHANGED <<cell_data, nuclear_membrane_averages, cytoplasm_averages,
                   nucleus_cytoplasm_ratios, cell_count>>

\* a pass of the loop whose analyze_single_cell returned the record of a cell
StoreCell(cell) ==
    /\ cell_data' = stored_cell_data(cell_data, cell)
    /\ nuclear_membrane_averages' = Append(nuclear_membrane_averages, cell.nuclear_mean)
    /\ cytoplasm_averages' = stored_cytoplasm_averages(cytoplasm_averages, cell)
    /\ nucleus_cytoplasm_ratios' = Append(nucleus_cytoplasm_ratios, cell.ratio)
    /\ round_result' = "completed"
    /\ pc' = "ask continue"
    /\ UNCHANGED cell_count

\* analyze_single_cell stands at the cytoplasm trace
AwaitCytoplasm ==
    /\ pc' = "trace cytoplasm"
    /\ round_result' = "in progress"
    /\ UNCHANGED <<cell_data, nuclear_membrane_averages, cytoplasm_averages,
                   nucleus_cytoplasm_ratios, cell_count>>

\* mutant: the prompt is shown after a skipped pass as well
EndOfPassWithPromptAfterSkip(cell) ==
    CASE cell.kind = "value" -> StoreCell(cell.value)
      [] cell.kind = "not called" -> AwaitCytoplasm
      [] cell.kind = "None" ->
             /\ round_result' = "skipped"
             /\ cell_count' = cell_count - 1
             /\ pc' = "ask continue"
             /\ UNCHANGED <<cell_data, nuclear_membrane_averages, cytoplasm_averages,
                            nucleus_cytoplasm_ratios>>
      [] OTHER -> CrashCell

\* what run_analysis does with the outcome of analyze_single_cell
EndOfPass(cell) ==
    CASE cell.kind = "value" -> StoreCell(cell.value)
      [] cell.kind = "not called" -> AwaitCytoplasm
      [] cell.kind = "None" -> SkipCell
      [] OTHER -> CrashCell

NuclearMembraneTraced(xs, ys, traced, outcome) ==
    /\ x_coords' = xs
    /\ y_coords' = ys
    /\ sample' = traced
    /\ nuclear_data' = outcome
    /\ cytoplasm_data' = NotCalled
    /\ EndOfPass(analyze_single_cell(outcome, NotCalled, cell_count))

\* the loop of run_analysis up to the return of the nuclear-membrane trace
TraceNuclearMembrane ==
    /\ pc = "trace nuclear"
    /\ \E polygon \in SessionPolygons, profile \in SessionProfiles :
          \/ NuclearMembraneTraced(
                 polygon.xs, polygon.ys, profile,
                 measure_nuclear_membrane_detailed("polyline", polygon.xs, polygon.ys,
                                                   profile, threshold_percentage))
          \/ NuclearMembraneTraced(
                 <<>>, <<>>, <<>>,
                 measure_nuclear_membrane_detailed("None", <<>>, <<>>, <<>>,
                                                   threshold_percentage))
    /\ UNCHANGED <<profile_length, segment_boundaries, threshold_percentage,
                   threshold_percent, nuclear_recalc, cytoplasm_recalc,
                   EXCEL_AVAILABLE, threshold_comparison, threshold_summary,
                   export_result, se_vars, sheet_vars>>

CytoplasmTraced(traced, outcome) ==
    /\ sample' = traced
    /\ cytoplasm_data' = outcome
    /\ EndOfPass(analyze_single_cell(nuclear_data, outcome, cell_count))

\* the loop of run_analysis from the cytoplasm trace to the prompt
TraceCytoplasm ==
    /\ pc = "trace cytoplasm"
    /\ \E profile \in SessionProfiles :
          \/ CytoplasmTraced(profile, measure_cytoplasm_detailed(
                                          "polyline", profile, threshold_percentage))
          \/ CytoplasmTraced(<<>>, measure_cytoplasm_detailed(
                                       "None", <<>>, threshold_percentage))
    /\ UNCHANGED <<x_coords, y_coords, profile_length, segment_boundaries,
                   threshold_percentage, threshold_percent, nuclear_data, nuclear_recalc,
                   cytoplasm_recalc, EXCEL_AVAILABLE, threshold_comparison,
                   threshold_summary, export_result, se_vars, sheet_vars>>

\* ask_continue and the branch run_analysis takes on its answer
AskContinue ==
    /\ pc = "ask continue"
    /\ \E choice \in Choices :
          CASE choice = "continue" ->
                  /\ Len(cell_data) < MaxCells
                  /\ cell_count' = cell_count + 1
                  /\ pc' = "trace nuclear"
                  /\ x_coords' = <<>>
                  /\ y_coords' = <<>>
                  /\ sample' = <<>>
                  /\ nuclear_data' = NotCalled
                  /\ cytoplasm_data' = NotCalled
            [] choice = "export" ->
                  /\ pc' = "export"
                  /\ UNCHANGED <<cell_count, x_coords, y_coords, sample, nuclear_data,
                                 cytoplasm_data>>
            [] OTHER ->
                  /\ pc' = "cancelled"
                  /\ UNCHANGED <<cell_count, x_coords, y_coords, sample, nuclear_data,
                                 cytoplasm_data>>
    /\ UNCHANGED <<profile_length, segment_boundaries, threshold_percentage,
                   threshold_percent, nuclear_recalc, cytoplasm_recalc, cell_data,
                   nuclear_membrane_averages, cytoplasm_averages,
                   nucleus_cytoplasm_ratios, round_result, EXCEL_AVAILABLE,
                   threshold_comparison, threshold_summary, export_result, se_vars, sheet_vars>>

\* sum(values) / float(len(values)) of the summary statistics
summary_mean(values) ==
    IF Len(values) = 0 THEN Raised("ZeroDivisionError")
    ELSE Returned(RatDivInt(RatSum(values), Len(values)))

\* the summary means of create_threshold_comparison_sheet, per fixed
\* threshold, over the values of the cell rows (the code computes the values
\* a second time, by the same calls)
comparison_summary(rows) ==
    [k \in 1..Len(fixed_thresholds) |->
        [threshold |-> fixed_thresholds[k],
         nuclear_mean_avg |->
             summary_mean([i \in 1..Len(rows) |-> rows[i][k].nuclear_mean]),
         cytoplasm_mean_avg |->
             summary_mean([i \in 1..Len(rows) |-> rows[i][k].cytoplasm_mean]),
         ratio_mean_avg |->
             summary_mean([i \in 1..Len(rows) |-> rows[i][k].ratio.value])]]

\* an exception inside create_threshold_comparison_sheet
comparison_raises(rows) ==
    \E i \in 1..Len(rows) : \E k \in 1..Len(rows[i]) : rows[i][k].ratio.kind # "value"

summary_raises(summary) ==
    \E k \in 1..Len(summary) :
        \/ summary[k].nuclear_mean_avg.kind # "value"
        \/ summary[k].cytoplasm_mean_avg.kind # "value"
        \/ summary[k].ratio_mean_avg.kind # "value"

\* the sheet was completed: its rows and summary are kept
ComparisonSheet(rows, summary, save_fails) ==
    IF summary_raises(summary)
    THEN /\ export_result' = "Excel creation failed"
         /\ threshold_comparison' = rows
         /\ threshold_summary' = <<>>
    ELSE /\ threshold_comparison' = rows
         /\ threshold_summary' = summary
         /\ export_result' = IF save_fails THEN "Excel creation failed"
                             ELSE "workbook written"

\* create_excel_with_publication_charts inside the try of export_to_excel
CreateExcel(rows, save_fails) ==
    IF comparison_raises(rows)
    THEN /\ export_result' = "Excel creation failed"
         /\ threshold_comparison' = <<>>
         /\ threshold_summary' = <<>>
    ELSE ComparisonSheet(rows, comparison_summary(rows), save_fails)

\* export_to_excel and the rest of run_analysis: the export dialogs, the
\* workbook with its threshold comparison sheet, the completion message
ExportToExcel ==
    /\ pc = "export"
    /\ \E directory_chosen \in BOOLEAN, wasCanceled \in BOOLEAN, save_fails \in BOOLEAN :
          IF ~directory_chosen \/ wasCanceled
          THEN /\ export_result' = "no export settings"
               /\ UNCHANGED <<threshold_comparison, threshold_summary>>
          ELSE IF ~EXCEL_AVAILABLE
          THEN /\ export_result' = "no Excel support"
               /\ UNCHANGED <<threshold_comparison, threshold_summary>>
          ELSE CreateExcel(comparison_rows(cell_data), save_fails)
    /\ pc' = "analysis complete"
    /\ UNCHANGED <<x_coords, y_coords, profile_length, segment_boundaries, sample,
                   threshold_percentage, threshold_percent, nuclear_data, cytoplasm_data,
                   nuclear_recalc, cytoplasm_recalc, cell_data,
                   nuclear_membrane_averages, cytoplasm_averages,
                   nucleus_cytoplasm_ratios, cell_count, round_result, EXCEL_AVAILABLE,
                   se_vars, sheet_vars>>

Next ==
    \/ StartSession
    \/ TraceNuclearMembrane
    \/ TraceCytoplasm
    \/ AskContinue
    \/ ExportToExcel

Spec == InitSession /\ [][Next]_vars

----------------------------------------------------------------------------
(* Claims about the settings dialog of a session *)

NothingAnalysed ==
    /\ cell_count = 0
    /\ cell_data = <<>>
    /\ nuclear_membrane_averages = <<>>
    /\ cytoplasm_averages = <<>>
    /\ nucleus_cytoplasm_ratios = <<>>
    /\ nuclear_data = NotCalled
    /\ cytoplasm_data = NotCalled
    /\ round_result = "none"
    /\ threshold_comparison = <<>>
    /\ export_result = "not called"

\* C11: a threshold outside (0, 100] is rejected before any analysis: the run
\* has ended at the rejection, no cell was measured, no record was appended
\* and no export was performed.
C11_OutOfRangeRejected ==
    (threshold_percentage <= 0 \/ threshold_percentage > 100 * ThresholdDen) =>
        /\ pc = "threshold rejected"
        /\ NothingAnalysed

\* the number 0 was entered and rejected
C11_Witness ==
    /\ pc = "threshold rejected"
    /\ threshold_percentage = 0
    /\ NothingAnalysed

\* C12 (as claimed): every threshold in (0, 100] is accepted, the values
\* strictly between 0 and 1 included.
C12_AcceptsAboveZero ==
    pc = "threshold rejected" =>
        ~(0 < threshold_percentage /\ threshold_percentage <= 100 * ThresholdDen)

\* C12 (amended): every threshold in [1, 100] is accepted and the cells are
\* analysed with it; every number below 1, the values strictly between 0 and
\* 1 included, is rejected like the numbers above 100.
C12_AcceptsOneToHundred ==
    /\ pc = "threshold rejected" =>
          \/ threshold_percentage < 1 * ThresholdDen
          \/ threshold_percentage > 100 * ThresholdDen
    /\ (threshold_percentage < 1 * ThresholdDen
            \/ threshold_percentage > 100 * ThresholdDen) =>
          /\ pc = "threshold rejected"
          /\ NothingAnalysed

\* a cell was analysed with the threshold 1, and 100 is accepted as well
C12_Witness ==
    /\ pc = "ask continue"
    /\ threshold_percentage = 1 * ThresholdDen
    /\ Len(cell_data) = 1
    /\ ~threshold_rejected(100 * ThresholdDen)

----------------------------------------------------------------------------
(* Claims about the segments of the nuclear-membrane profile *)

\* C13: the values of nuclear segment k are exactly
\* profile[boundaries[k] .. boundaries[k+1]], both ends included, so that two
\* adjacent segments share the pixel at their common boundary index.
C13_SegmentsShareBoundaryPixel ==
    StrokesMeasured =>
        LET measured == nuclear_data.value
            strokes == measured.stroke_data
        IN  /\ \A k \in 1..Len(strokes) :
                  LET first == measured.segment_boundaries[strokes[k].segment_number]
                      last == measured.segment_boundaries[strokes[k].segment_number + 1]
                  IN  /\ strokes[k].start_index = first
                      /\ strokes[k].end_index = last
                      /\ Len(strokes[k].raw_values) = (last - first) + 1
                      /\ \A j \in 0..(last - first) :
                            strokes[k].raw_values[j + 1] = measured.full_profile[first + j + 1]
            /\ \A k \in 1..(Len(strokes) - 1) :
                  /\ strokes[k].end_index = strokes[k + 1].start_index
                  /\ strokes[k].raw_values[Len(strokes[k].raw_values)] =
                        measured.full_profile[strokes[k].end_index + 1]
                  /\ strokes[k + 1].raw_values[1] =
                        measured.full_profile[strokes[k].end_index + 1]

\* the profile 0, 1, 0 traced in two segments: the 1 belongs to both
C13_Witness ==
    /\ StrokesMeasured
    /\ nuclear_data.value.full_profile = <<0, 1, 0>>
    /\ Len(nuclear_data.value.stroke_data) = 2
    /\ nuclear_data.value.stroke_data[1].raw_values = <<0, 1>>
    /\ nuclear_data.value.stroke_data[2].raw_values = <<1, 0>>

----------------------------------------------------------------------------
(* Claims about the ratio of a cell *)

\* C14: the ratio of a cell is 0 whenever its cytoplasm mean is 0, and no
\* exception is raised; the same holds for the ratios per threshold of the
\* threshold comparison sheet.
C14_ZeroCytoplasmMeanGivesZeroRatio ==
    /\ \A i \in 1..Len(cell_data) :
          cell_data[i].cytoplasm_mean.num = 0 => cell_data[i].ratio = RatZero
    /\ (cytoplasm_data.kind = "value" /\ cytoplasm_data.value.mean.num = 0) =>
          /\ round_result = "completed"
          /\ cell_data[Len(cell_data)].cytoplasm_data = cytoplasm_data.value
    /\ \A i \in 1..Len(threshold_comparison) :
          \A k \in 1..Len(threshold_comparison[i]) :
              threshold_comparison[i][k].cytoplasm_mean.num = 0 =>
                  threshold_comparison[i][k].ratio = Returned(RatZero)
    /\ export_result = "Excel creation failed" => threshold_comparison # <<>>

\* a written workbook whose first cell has a nuclear mean above 0 and a
\* cytoplasm mean of 0, in the record and at the first fixed threshold
C14_Witness ==
    /\ export_result = "workbook written"
    /\ cell_data[1].cytoplasm_mean.num = 0
    /\ cell_data[1].nuclear_mean.num > 0
    /\ cell_data[1].ratio = RatZero
    /\ threshold_comparison[1][1].cytoplasm_mean.num = 0
    /\ threshold_comparison[1][1].nuclear_mean.num > 0
    /\ threshold_comparison[1][1].ratio = Returned(RatZero)

\* C15 (as claimed): for every cell record whose cytoplasm mean is not 0,
\* negative means included, the stored ratio is the nuclear mean divided by
\* the cytoplasm mean.
C15_RatioIsQuotientUnlessZero ==
    \A i \in 1..Len(cell_data) :
        cell_data[i].cytoplasm_mean.num # 0 =>
            cell_data[i].ratio = RatDiv(cell_data[i].nuclear_mean,
                                        cell_data[i].cytoplasm_mean)

----------------------------------------------------------------------------
(* calculate_se.  The two square roots are not evaluated: the returned       *)
(* number is kept as its exact square, sqrt(a) / sqrt(b) having the square   *)
(* a / b.                                                                    *)

RatSub(a, b) == Rat(a.num * b.den - b.num * a.den, a.den * b.den)

RatMul(a, b) == Rat(a.num * b.num, a.den * b.den)

\* math.sqrt(x), as the non-negative number whose square is x
sqrt(x) == [squared |-> x]

\* a / b for two such numbers
sqrt_quotient(a, b) == [squared |-> RatDiv(a.squared, b.squared)]

\* mutant: only the empty list takes the early return
se_is_zero_only_empty(length) == length < 1

\* len(data) <= 1
se_is_zero(length) == length <= 1

\* mutant: the variance of the population
variance_divisor_population(length) == length

\* float(len(data) - 1)
variance_divisor(length) == length - 1

\* sum((float(x) - mean) ** 2 for x in data)
sum_squared_diff(values, mean) ==
    RatSum([i \in 1..Len(values) |->
               RatMul(RatSub(Rat(values[i], 1), mean), RatSub(Rat(values[i], 1), mean))])

calculate_se(values) ==
    IF se_is_zero(Len(values)) THEN Returned(sqrt(RatZero))
    ELSE IF variance_divisor(Len(values)) = 0 THEN Raised("ZeroDivisionError")
    ELSE Returned(sqrt_quotient(
             sqrt(RatDivInt(sum_squared_diff(values, mean_of(values)),
                            variance_divisor(Len(values)))),
             sqrt(Rat(Len(values), 1))))

----------------------------------------------------------------------------
(* Specification of calculate_se on bounded inputs *)

\* data: sequences of 0..MaxDataLen numbers in 0..MaxDataValue
MaxDataLen == 3
MaxDataValue == 6

DataInputs == UNION {[1..n -> 0..MaxDataValue] : n \in 0..MaxDataLen}

InitSE ==
    /\ pc = "calculate_se called"
    /\ se_data \in DataInputs
    /\ se = NotCalled
    /\ NoSession
    /\ NoSheet
    /\ x_coords = <<>>
    /\ y_coords = <<>>
    /\ profile_length = 0
    /\ segment_boundaries = NotCalled
    /\ sample = <<>>
    /\ threshold_percentage = 50 * ThresholdDen
    /\ threshold_percent = 50 * ThresholdDen
    /\ nuclear_data = NotCalled
    /\ cytoplasm_data = NotCalled
    /\ nuclear_recalc = NotCalled
    /\ cytoplasm_recalc = NotCalled

CalculateSE ==
    /\ pc = "calculate_se called"
    /\ se' = calculate_se(se_data)
    /\ pc' = "calculate_se returned"
    /\ UNCHANGED <<x_coords, y_coords, profile_length, segment_boundaries, sample,
                   threshold_percentage, threshold_percent, nuclear_data, cytoplasm_data,
                   nuclear_recalc, cytoplasm_recalc, session_vars, se_data, sheet_vars>>

NextSE == CalculateSE

SpecSE == InitSE /\ [][NextSE]_vars

----------------------------------------------------------------------------
(* Claims about calculate_se *)

\* C16: calculate_se returns 0.0 for a sequence of length 0 or 1.
C16_ZeroForShortData ==
    (pc = "calculate_se returned" /\ Len(se_data) <= 1) =>
        se = Returned(sqrt(RatZero))

\* a single number other than 0
C16_Witness ==
    /\ pc = "calculate_se returned"
    /\ Len(se_data) = 1
    /\ se_data[1] > 0
    /\ se = Returned(sqrt(RatZero))

\* the sum of the squared deviations from the mean, from the sums of the
\* numbers and of their squares: (n * sum(x^2) - sum(x)^2) / n
squared_deviations(values) ==
    Rat(Len(values) * sum([i \in 1..Len(values) |-> values[i] * values[i]])
            - sum(values) * sum(values),
        Len(values))

\* C17: for a sequence of length n >= 2 the square of the returned number is
\* the sum of the squared deviations from the mean divided by (n - 1) * n.
C17_SquaredSEIsSampleVarianceOverN ==
    (pc = "calculate_se returned" /\ Len(se_data) >= 2) =>
        /\ se.kind = "value"
        /\ se.value.squared =
              RatDivInt(squared_deviations(se_data), (Len(se_data) - 1) * Len(se_data))

\* the data 2, 4, 6: variance 4, squared standard error 4/3
C17_Witness ==
    /\ pc = "calculate_se returned"
    /\ se_data = <<2, 4, 6>>
    /\ RatDivInt(squared_deviations(se_data), Len(se_data) - 1) = Rat(4, 1)
    /\ se = Returned(sqrt(Rat(4, 3)))

----------------------------------------------------------------------------
(* Claims about the lists of a session *)

\* C18: the list of cell records is append-only and its entries are never
\* changed: every step of run_analysis, the export with its threshold
\* recalculation included, keeps the records it found, in their places, and
\* adds at most one record behind them.
C18_RecordsAppendOnly ==
    [][ /\ Len(cell_data') \in {Len(cell_data), Len(cell_data) + 1}
        /\ SubSeq(cell_data', 1, Len(cell_data)) = cell_data ]_vars

\* two records, exported with the threshold comparison of both
C18_Witness ==
    /\ export_result = "workbook written"
    /\ Len(cell_data) = 2
    /\ cell_data[1].nuclear_data # cell_data[2].nuclear_data
    /\ Len(threshold_comparison) = 2

\* C19: between the passes of the loop the three derived lists are as long
\* as the list of records, and their i-th elements are the nuclear mean, the
\* cytoplasm mean and the ratio of the i-th record.
C19_DerivedListsMirrorRecords ==
    /\ Len(nuclear_membrane_averages) = Len(cell_data)
    /\ Len(cytoplasm_averages) = Len(cell_data)
    /\ Len(nucleus_cytoplasm_ratios) = Len(cell_data)
    /\ \A i \in 1..Len(cell_data) :
          /\ nuclear_membrane_averages[i] = cell_data[i].nuclear_mean
          /\ cytoplasm_averages[i] = cell_data[i].cytoplasm_mean
          /\ nucleus_cytoplasm_ratios[i] = cell_data[i].ratio

\* two records at the head of a pass, with different means and ratios
C19_Witness ==
    /\ pc = "ask continue"
    /\ Len(cell_data) = 2
    /\ cell_data[1].cytoplasm_mean # cell_data[2].cytoplasm_mean
    /\ cell_data[1].nuclear_mean # cell_data[1].cytoplasm_mean
    /\ cell_data[2].ratio # cell_data[2].nuclear_mean
    /\ cytoplasm_averages = <<cell_data[1].cytoplasm_mean, cell_data[2].cytoplasm_mean>>

ListsUnchanged ==
    UNCHANGED <<cell_data, nuclear_membrane_averages, cytoplasm_averages,
                nucleus_cytoplasm_ratios>>

ListsGrowByOne ==
    /\ Len(cell_data') = Len(cell_data) + 1
    /\ Len(nuclear_membrane_averages') = Len(nuclear_membrane_averages) + 1
    /\ Len(cytoplasm_averages') = Len(cytoplasm_averages) + 1
    /\ Len(nucleus_cytoplasm_ratios') = Len(nucleus_cytoplasm_ratios) + 1

\* C20: exactly one record is appended per completed round, one in which
\* both measurements returned data; no record is appended in a round in which
\* a measurement returned no data, all four lists are unchanged then; and no
\* other step changes the lists.
C20_OneRecordPerCompletedRound ==
    [][ IF pc = "trace cytoplasm" /\ cytoplasm_data'.kind = "value"
        THEN /\ nuclear_data'.kind = "value"
             /\ ListsGrowByOne
             /\ round_result' = "completed"
        ELSE /\ ListsUnchanged
             /\ (pc \in {"trace nuclear", "trace cytoplasm"}
                    /\ (nuclear_data'.kind = "None" \/ cytoplasm_data'.kind = "None")) =>
                   /\ round_result' = "skipped"
                   /\ cell_count' = cell_count ]_vars

\* after one completed round, a round whose cytoplasm trace returned no data
C20_Witness ==
    /\ round_result = "skipped"
    /\ nuclear_data.kind = "value"
    /\ cytoplasm_data.kind = "None"
    /\ Len(cell_data) = 1
    /\ Len(nucleus_cytoplasm_ratios) = 1
    /\ cell_count = 2

----------------------------------------------------------------------------
(* Claims about the data a cell record holds *)

\* the top-percent result of the measurement paths for the given values:
\* the selection above the cut of the code, and its mean
IsThresholdResult(top_values, average, values, th) ==
    /\ Len(top_values) >= 1
    /\ IsTopSelection(top_values, values, threshold_idx(Len(values), th))
    /\ average = Rat(sum(top_values), Len(top_values))

\* C21: the nuclear data of a cell hold one top-percent result per traced
\* segment and the cytoplasm data one result over the whole cytoplasm
\* profile; the nuclear mean is the unweighted mean of the means of the
\* segments, the cytoplasm mean the top-percent mean of the entire profile.
C21_OneResultPerSegment ==
    /\ StrokesMeasured =>
          LET measured == nuclear_data.value
              n_segments == Len(x_coords) - 1
          IN  /\ Len(measured.stroke_data) = n_segments
              /\ Len(measured.stroke_averages) = n_segments
              /\ measured.n_segments = n_segments
              /\ \A k \in 1..n_segments :
                    /\ measured.stroke_data[k].segment_number = k
                    /\ measured.stroke_averages[k] = measured.stroke_data[k].stroke_average
                    /\ IsThresholdResult(measured.stroke_data[k].top_values,
                                         measured.stroke_data[k].stroke_average,
                                         measured.stroke_data[k].raw_values,
                                         threshold_percentage)
              /\ RatSum(measured.stroke_averages) =
                    Rat(measured.overall_mean.num * n_segments, measured.overall_mean.den)
    /\ CytoplasmMeasured =>
          /\ cytoplasm_data.value.raw_profile = sample
          /\ IsThresholdResult(cytoplasm_data.value.top_values, cytoplasm_data.value.mean,
                               sample, threshold_percentage)

\* two segments of one profile whose unweighted mean of means differs from
\* the top-percent mean of the pooled profile (the cytoplasm trace of the
\* same sample)
C21_Witness ==
    /\ pc = "cell measured"
    /\ Len(nuclear_data.value.stroke_data) = 2
    /\ nuclear_data.value.full_profile = cytoplasm_data.value.raw_profile
    /\ nuclear_data.value.overall_mean # cytoplasm_data.value.mean

\* C22: the top-percent computation has no side effect and is deterministic:
\* the profile is stored as it was traced, not sorted, and the computation
\* repeated on the stored profile with the same threshold, by the same path
\* or by the other path, gives the same top values and the same mean.
C22_ProfileKeptAndRepeatable ==
    /\ StrokesMeasured =>
          /\ nuclear_data.value.full_profile = sample
          /\ measure_nuclear_membrane_detailed("polyline", x_coords, y_coords,
                 nuclear_data.value.full_profile, threshold_percentage) = nuclear_data
    /\ CytoplasmMeasured =>
          /\ cytoplasm_data.value.raw_profile = sample
          /\ measure_cytoplasm_detailed("polyline", cytoplasm_data.value.raw_profile,
                 threshold_percentage) = cytoplasm_data
          /\ recalculate_cytoplasm_mean_with_threshold(
                 cytoplasm_data.value, threshold_percentage).value =
                    cytoplasm_data.value.mean
    /\ (pc = "cell measured" /\ Len(x_coords) = 2) =>
          /\ nuclear_data.value.stroke_data[1].raw_values = cytoplasm_data.value.raw_profile
          /\ nuclear_data.value.stroke_data[1].top_values = cytoplasm_data.value.top_values
          /\ nuclear_data.value.stroke_data[1].stroke_average = cytoplasm_data.value.mean

\* a profile that is not in ascending order, measured by both paths, with a
\* selection that leaves values out
C22_Witness ==
    /\ pc = "cell measured"
    /\ Len(x_coords) = 2
    /\ ~IsAscending(sample)
    /\ cytoplasm_data.value.raw_profile = sample
    /\ Len(cytoplasm_data.value.top_values) < Len(sample)
    /\ nuclear_data.value.stroke_data[1].top_values = cytoplasm_data.value.top_values

\* C27: recalculating a stored cell with the threshold of the session gives
\* the stored values: the nuclear mean and the cytoplasm mean.
C27_RecalculationReproducesStored ==
    /\ StrokesMeasured =>
          recalculate_nuclear_mean_with_threshold(nuclear_data.value, threshold_percentage)
              = Returned(nuclear_data.value.overall_mean)
    /\ CytoplasmMeasured =>
          recalculate_cytoplasm_mean_with_threshold(cytoplasm_data.value,
                                                    threshold_percentage)
              = Returned(cytoplasm_data.value.mean)

\* a cell of two segments measured at 80 percent on five pixels, where the
\* stored cytoplasm mean is not the mean above the exact floor of the cut
C27_Witness ==
    /\ pc = "cell measured"
    /\ threshold_percentage = 80 * ThresholdDen
    /\ Len(sample) = 5
    /\ Len(nuclear_data.value.stroke_data) = 2
    /\ nuclear_data.value.overall_mean # cytoplasm_data.value.mean
    /\ cytoplasm_data.value.mean #
          mean_of(slice_from(sorted(sample), exact_cut(5, threshold_percentage)))

----------------------------------------------------------------------------
(* Claims about the course of a session *)

\* C23: whenever the prompt is shown and whenever the export starts,
\* cell_count is the number of stored records, and the i-th record has
\* cell_number i; during a round cell_count is one more, also after skipped
\* rounds, so the numbers are 1..N without gaps.
C23_CellNumbersContiguous ==
    /\ \A i \in 1..Len(cell_data) : cell_data[i].cell_number = i
    /\ pc \in {"ask continue", "export", "analysis complete", "cancelled"} =>
          cell_count = Len(cell_data)
    /\ pc \in {"trace nuclear", "trace cytoplasm"} => cell_count = Len(cell_data) + 1

\* a round skipped at the nuclear trace after the first cell was stored
C23_Witness ==
    /\ pc = "trace nuclear"
    /\ round_result = "skipped"
    /\ nuclear_data.kind = "None"
    /\ Len(cell_data) = 1
    /\ cell_data[1].cell_number = 1
    /\ cell_count = 2

\* a summary mean of the threshold comparison sheet was a division by a
\* count of zero
SummaryDividedByZero ==
    \/ export_result = "Excel creation failed" /\ threshold_summary = <<>>
    \/ \E k \in 1..Len(threshold_summary) :
          \/ threshold_summary[k].nuclear_mean_avg.kind = "ZeroDivisionError"
          \/ threshold_summary[k].cytoplasm_mean_avg.kind = "ZeroDivisionError"
          \/ threshold_summary[k].ratio_mean_avg.kind = "ZeroDivisionError"

\* C24: export_to_excel is entered only from the prompt, on "export"; the
\* prompt is shown only after a completed cell; so at the export there is at
\* least one record and no mean of the comparison sheet divides by a count of
\* zero; after "cancel" no export is attempted.
C24_ExportOnlyFromPrompt ==
    /\ [](/\ pc = "ask continue" => (round_result = "completed" /\ Len(cell_data) >= 1)
          /\ (pc = "export" \/ export_result # "not called") =>
                (round_result = "completed" /\ Len(cell_data) >= 1)
          /\ ~SummaryDividedByZero
          /\ pc = "cancelled" =>
                /\ export_result = "not called"
                /\ threshold_comparison = <<>>
                /\ threshold_summary = <<>>)
    /\ [][/\ pc' = "ask continue" =>
                (pc = "trace cytoplasm" /\ Len(cell_data') = Len(cell_data) + 1)
          /\ pc' = "export" => pc = "ask continue"
          /\ export_result' # export_result => pc = "export"
          /\ pc = "cancelled" => pc' = "cancelled"]_vars

\* a workbook with the summary means of two cells
C24_Witness ==
    /\ pc = "analysis complete"
    /\ export_result = "workbook written"
    /\ Len(cell_data) = 2
    /\ Len(threshold_summary) = Len(fixed_thresholds)
    /\ threshold_summary[1].nuclear_mean_avg.kind = "value"
    /\ threshold_summary[1].nuclear_mean_avg.value # threshold_comparison[1][1].nuclear_mean

\* the message "Excel file created successfully!" of run_analysis was shown
CompletionMessageShown == pc = "analysis complete"

\* C25 (as claimed): the final message of run_analysis is shown only in runs
\* in which a workbook was written to the chosen file.
C25_MessageOnlyAfterWorkbook ==
    CompletionMessageShown => export_result = "workbook written"

\* the run has left the loop of run_analysis, or run_analysis itself after
\* the loop was entered
LoopLeft == pc \in {"crashed", "cancelled", "export", "analysis complete"}

\* C26 (as claimed): the loop is left only through the prompt, which is
\* shown only after a completed cell.
C26_LoopLeftOnlyThroughPrompt ==
    LoopLeft => (round_result = "completed" /\ Len(cell_data) >= 1)


----------------------------------------------------------------------------
(* The data rows of a cell sheet (create_cell_sheet_with_publication_charts) *)
(* Pixel intensities are integers, so round(intensity, 3) is the intensity.  *)

\* a cell holding a number, a cell holding the empty string
number_cell(v) == [kind |-> "number", value |-> v]
empty_cell == [kind |-> "empty", value |-> 0]

\* the segments, counted from 0, whose interval of boundaries contains index j
strokes_containing(boundaries, j) ==
    {seg \in 0..(Len(boundaries) - 2) : boundaries[seg + 1] <= j /\ j <= boundaries[seg + 2]}

\* the smallest and the largest element of a non-empty set of integers
Minimum(S) == CHOOSE m \in S : \A k \in S : m <= k
Maximum(S) == CHOOSE m \in S : \A k \in S : k <= m

\* mutant: the search does not stop at the first segment found
current_stroke_last_match(boundaries, j) ==
    IF strokes_containing(boundaries, j) = {} THEN -1
    ELSE Maximum(strokes_containing(boundaries, j))

\* the search loop for current_stroke: the first segment found, else -1
current_stroke(boundaries, j) ==
    IF strokes_containing(boundaries, j) = {} THEN -1
    ELSE Minimum(strokes_containing(boundaries, j))

\* the rows of the nuclear section: the profile index and one cell per stroke
nuclear_rows(data) ==
    [r \in 1..Len(data.full_profile) |->
        [index |-> r - 1,
         cells |-> [c \in 1..data.n_segments |->
                       IF c - 1 = current_stroke(data.segment_boundaries, r - 1)
                       THEN number_cell(data.full_profile[r])
                       ELSE empty_cell]]]

\* mutant: a pixel is above the threshold when it exceeds a selected value
above_threshold_strict(intensity, top_values) ==
    \E i \in 1..Len(top_values) : intensity > top_values[i]

\* intensity in top_values
above_threshold(intensity, top_values) ==
    \E i \in 1..Len(top_values) : intensity = top_values[i]

\* the rows of the cytoplasm section: the profile index and the two series
cytoplasm_rows(data) ==
    [r \in 1..Len(data.raw_profile) |->
        IF above_threshold(data.raw_profile[r], data.top_values)
        THEN [index |-> r - 1, above |-> number_cell(data.raw_profile[r]),
              below |-> empty_cell]
        ELSE [index |-> r - 1, above |-> empty_cell,
              below |-> number_cell(data.raw_profile[r])]]

----------------------------------------------------------------------------
(* Specification of one cell from its traces to its sheet: the nuclear      *)
(* trace of a general polyline, the cytoplasm trace, the rows of the sheet  *)

MaxSheetAnchors == 3
MaxSheetProfile == 6

\* anchor points: the corners of a 3-4-5 triangle
SheetPoints == { <<0, 0>>, <<3, 0>>, <<3, 4>> }

\* traced polylines, anchors may repeat
SheetPolygons ==
    UNION {{[xs |-> [i \in 1..n |-> p[i][1]], ys |-> [i \in 1..n |-> p[i][2]]] :
               p \in [1..n -> SheetPoints]} : n \in 1..MaxSheetAnchors}

\* profiles the host returns: falling in pairs of equal pixels, or a zigzag
SheetProfiles ==
    UNION {{[j \in 1..n |-> (n - j) \div 2], [j \in 1..n |-> j % 3]} :
               n \in 0..MaxSheetProfile}

\* accepted thresholds: 1, 50 and 100 percent
SheetThresholds == {1 * ThresholdDen, 50 * ThresholdDen, 100 * ThresholdDen}

InitSheet ==
    /\ NoSession
    /\ NoStatistics
    /\ NoSheet
    /\ pc = "trace nuclear"
    /\ sample \in SheetProfiles
    /\ threshold_percentage \in SheetThresholds
    /\ threshold_percent = threshold_percentage
    /\ \E polygon \in SheetPolygons :
          /\ x_coords = polygon.xs
          /\ y_coords = polygon.ys
    /\ profile_length = Len(sample)
    /\ segment_boundaries = NotCalled
    /\ nuclear_data = NotCalled
    /\ cytoplasm_data = NotCalled
    /\ nuclear_recalc = NotCalled
    /\ cytoplasm_recalc = NotCalled

\* measure_nuclear_membrane_detailed on the traced polyline
MeasureNuclearMembraneDetailed ==
    /\ pc = "trace nuclear"
    /\ nuclear_data' = measure_nuclear_membrane_detailed("polyline", x_coords, y_coords,
                                                         sample, threshold_percentage)
    /\ pc' = CASE nuclear_data'.kind = "value" -> "trace cytoplasm"
               [] nuclear_data'.kind = "None" -> "cell skipped"
               [] OTHER -> "crashed"
    /\ UNCHANGED <<x_coords, y_coords, profile_length, segment_boundaries, sample,
                   threshold_percentage, threshold_percent, cytoplasm_data,
                   nuclear_recalc, cytoplasm_recalc, session_vars, se_vars, sheet_vars>>

\* measure_cytoplasm_detailed on the traced line
MeasureCytoplasmDetailed ==
    /\ pc = "trace cytoplasm"
    /\ cytoplasm_data' = measure_cytoplasm_detailed("polyline", sample, threshold_percentage)
    /\ pc' = CASE cytoplasm_data'.kind = "value" -> "cell measured"
               [] cytoplasm_data'.kind = "None" -> "cell skipped"
               [] OTHER -> "crashed"
    /\ UNCHANGED <<x_coords, y_coords, profile_length, segment_boundaries, sample,
                   threshold_percentage, threshold_percent, nuclear_data,
                   nuclear_recalc, cytoplasm_recalc, session_vars, se_vars, sheet_vars>>

\* create_cell_sheet_with_publication_charts: the data rows of both sections
CreateCellSheet ==
    /\ pc = "cell measured"
    /\ nuclear_columns' = nuclear_rows(nuclear_data.value)
    /\ cytoplasm_columns' = cytoplasm_rows(cytoplasm_data.value)
    /\ pc' = "cell sheet created"
    /\ UNCHANGED <<x_coords, y_coords, profile_length, segment_boundaries, sample,
                   threshold_percentage, threshold_percent, nuclear_data, cytoplasm_data,
                   nuclear_recalc, cytoplasm_recalc, session_vars, se_vars>>

NextSheet ==
    \/ MeasureNuclearMembraneDetailed
    \/ MeasureCytoplasmDetailed
    \/ CreateCellSheet

SpecSheet == InitSheet /\ [][NextSheet]_vars


----------------------------------------------------------------------------
(* Claims about the segments of a traced polyline and the rows of the sheet *)

\* C28: for a polyline of at least 2 anchors that do not all coincide and a
\* non-empty profile, the measurement returns a result in which no segment
\* was skipped: n_segments is n_anchors - 1, the strokes carry the segment
\* numbers 1 .. n_anchors - 1 in order, and every stroke has at least one
\* raw value.
C28_EverySegmentMeasured ==
    (pc # "trace nuclear" /\ n_anchors >= 2 /\ ~AllAnchorsCoincide /\ Len(sample) > 0)
        => /\ nuclear_data.kind = "value"
           /\ nuclear_data.value.n_segments = n_anchors - 1
           /\ Len(nuclear_data.value.stroke_data) = n_anchors - 1
           /\ \A k \in 1..Len(nuclear_data.value.stroke_data) :
                 /\ nuclear_data.value.stroke_data[k].segment_number = k
                 /\ Len(nuclear_data.value.stroke_data[k].raw_values) >= 1

\* three anchors of which the first two coincide: the first segment is the
\* single pixel 0, and it is measured
C28_Witness ==
    /\ pc = "trace cytoplasm"
    /\ n_anchors = 3
    /\ x_coords[1] = x_coords[2] /\ y_coords[1] = y_coords[2]
    /\ ~AllAnchorsCoincide
    /\ Len(sample) >= 2
    /\ nuclear_data.value.n_segments = 2
    /\ nuclear_data.value.stroke_data[1].raw_values = <<sample[1]>>

\* the strokes of the stored nuclear result whose index interval contains j
strokes_of_pixel(j) ==
    {k \in 1..Len(nuclear_data.value.stroke_data) :
        /\ nuclear_data.value.stroke_data[k].start_index <= j
        /\ j <= nuclear_data.value.stroke_data[k].end_index}

\* C29: on the cell sheet there is one row per index of the nuclear profile;
\* the row has the intensity in exactly one stroke column, the column of the
\* lowest-numbered stroke whose interval start_index .. end_index contains
\* the index, and the empty string in the others.  A pixel that ends one
\* stroke and starts the next is in the column of the earlier stroke only,
\* while it is among the raw values of both.
C29_PixelInFirstContainingStroke ==
    pc = "cell sheet created" =>
        /\ Len(nuclear_columns) = Len(nuclear_data.value.full_profile)
        /\ \A r \in 1..Len(nuclear_columns) :
              /\ nuclear_columns[r].index = r - 1
              /\ Len(nuclear_columns[r].cells) = nuclear_data.value.n_segments
              /\ strokes_of_pixel(r - 1) # {}
              /\ \A c \in 1..Len(nuclear_columns[r].cells) :
                    IF c = Minimum(strokes_of_pixel(r - 1))
                    THEN nuclear_columns[r].cells[c]
                             = number_cell(nuclear_data.value.full_profile[r])
                    ELSE nuclear_columns[r].cells[c] = empty_cell
        /\ \A k \in 1..(Len(nuclear_data.value.stroke_data) - 1) :
              LET earlier == nuclear_data.value.stroke_data[k]
                  later == nuclear_data.value.stroke_data[k + 1]
                  row == nuclear_columns[earlier.end_index + 1]
              IN  /\ earlier.end_index = later.start_index
                  /\ earlier.raw_values[Len(earlier.raw_values)] = later.raw_values[1]
                  /\ row.cells[k + 1] = empty_cell
                  /\ \E c \in 1..k : row.cells[c].kind = "number"

\* a pixel inside the profile shared by strokes 1 and 2, written under stroke 1
C29_Witness ==
    /\ pc = "cell sheet created"
    /\ Len(nuclear_data.value.stroke_data) = 2
    /\ nuclear_data.value.stroke_data[1].end_index > 0
    /\ nuclear_data.value.stroke_data[2].end_index
           > nuclear_data.value.stroke_data[2].start_index
    /\ strokes_of_pixel(nuclear_data.value.stroke_data[1].end_index) = {1, 2}
    /\ nuclear_columns[nuclear_data.value.stroke_data[1].end_index + 1].cells[1].kind
           = "number"
    /\ nuclear_columns[nuclear_data.value.stroke_data[1].end_index + 1].cells[2]
           = empty_cell

\* the rows of the cytoplasm section with a number in the given series
rows_above == {r \in 1..Len(cytoplasm_columns) : cytoplasm_columns[r].above.kind = "number"}
rows_below == {r \in 1..Len(cytoplasm_columns) : cytoplasm_columns[r].below.kind = "number"}

\* C30: on the cell sheet there is one row per cytoplasm pixel; the pixel is
\* in the above-threshold column exactly if its value is at least the stored
\* threshold_value, otherwise in the below-threshold column, never in both,
\* and the number of pixels above the threshold is at least len(top_values).
C30_AboveIffAtLeastThresholdValue ==
    pc = "cell sheet created" =>
        /\ Len(cytoplasm_columns) = Len(cytoplasm_data.value.raw_profile)
        /\ \A r \in 1..Len(cytoplasm_columns) :
              /\ cytoplasm_columns[r].index = r - 1
              /\ (r \in rows_above)
                     <=> (cytoplasm_data.value.raw_profile[r]
                              >= cytoplasm_data.value.threshold_value)
              /\ (r \in rows_above) # (r \in rows_below)
              /\ r \in rows_above =>
                    cytoplasm_columns[r].above.value = cytoplasm_data.value.raw_profile[r]
              /\ r \in rows_below =>
                    cytoplasm_columns[r].below.value = cytoplasm_data.value.raw_profile[r]
        /\ Cardinality(rows_above) >= Len(cytoplasm_data.value.top_values)

\* pixels tied with the threshold value: more pixels above the threshold than
\* selected values, and some pixels below
C30_Witness ==
    /\ pc = "cell sheet created"
    /\ Cardinality(rows_above) > Len(cytoplasm_data.value.top_values)
    /\ rows_below # {}

============================================================================
